---- MODULE Spec2Model ----
(***************************************************************************)
(* Model of pyrad/fields/modules/mlp.py: the MLP field module.             *)
(*                                                                         *)
(* An MLP object is constructed once from its arguments (__init__, which   *)
(* calls build_nn_modules) and is then evaluated any number of times       *)
(* (forward).  Tensors are modelled by their shape and by the symbolic     *)
(* expression (the sequence of operations applied to the network input)    *)
(* that computes their value.                                              *)
(***************************************************************************)
EXTENDS Integers, Sequences, FiniteSets, TLC

(* ------------------------------ bounds -------------------------------- *)
MaxLayers == 3
MaxDim == 2
MaxRank == 2
MaxBatch == 1

(* --------------------------- input domains ---------------------------- *)
Dims == 1..MaxDim

InDims == (0 - MaxDim)..MaxDim

\* Optional[int]: {} is None, {d} is the integer d
OptDims == {{}} \cup {{d} : d \in Dims}

LayerIndices == 0..(MaxLayers + 1)

Activations == {"None", "ReLU"}

OutActivations == {"None", "Sigmoid"}

ArgSet ==
    [in_dim : InDims,
     num_layers : 1..MaxLayers,
     layer_width : Dims,
     out_dim : OptDims,
     skip_connections : SUBSET LayerIndices,
     activation : Activations,
     out_activation : OutActivations]

LeadingShapes == UNION {[1..n -> 0..MaxBatch] : n \in 0..MaxRank}

\* a tensor: its shape and the operations that were applied to the input
InputTensors ==
    {[shape |-> Append(l, d), expr |-> <<>>] : l \in LeadingShapes, d \in Dims}

(* ------------------------- tensor primitives -------------------------- *)
Leading(t) == SubSeq(t.shape, 1, Len(t.shape) - 1)

Trailing(t) == t.shape[Len(t.shape)]

\* an operation of the expression of a tensor: its name, the index of the
\* loop iteration of forward that applied it and, for a concatenation, how
\* many operations had produced its first operand (0: the network input)
Op(name, layer, operand) == [op |-> name, layer |-> layer, operand |-> operand]

\* nn.Linear(in_features, out_features)
Linear(in_features, out_features) ==
    [in_features |-> in_features, out_features |-> out_features]

\* layer(x): an affine map over the trailing axis; a shape error when the
\* trailing dimension of x is not the layer's in_features
LinearFits(layer, x) == Trailing(x) = layer.in_features

LinearApply(layer, i, x) ==
    [shape |-> Append(Leading(x), layer.out_features),
     expr |-> Append(x.expr, Op("linear", i, 0))]

\* torch.cat([a, b], -1): every dimension but the last must agree
CatFits(a, b) == Len(a.shape) = Len(b.shape) /\ Leading(a) = Leading(b)

Cat(a, i, b) ==
    [shape |-> Append(Leading(b), Trailing(a) + Trailing(b)),
     expr |-> Append(b.expr, Op("cat", i, Len(a.expr)))]

\* activation(x): element-wise
ActivationApply(act, i, x) == [x EXCEPT !.expr = Append(@, Op(act, i, 0))]

\* truth value of an Optional[nn.Module]
Truthy(m) == m # "None"

(* ----------------------------- construction --------------------------- *)
\* the object after super().__init__(): no attribute of MLP assigned yet
NewModule ==
    [attrs |-> {}, error |-> "none", linear_calls |-> 0,
     in_dim |-> 0, out_dim |-> 0, num_layers |-> 0, layer_width |-> 0,
     skip_connections |-> {}, activation |-> "None",
     out_activation |-> "None", net |-> "None", layers |-> <<>>]

HiddenLayer_noSkip(obj, i) ==
    IF i = 0
    THEN Linear(obj.in_dim, obj.layer_width)
    ELSE Linear(obj.layer_width, obj.layer_width)

\* the unit appended by iteration i of the loop of build_nn_modules
HiddenLayer(obj, i) ==
    IF i = 0
    THEN Linear(obj.in_dim, obj.layer_width)
    ELSE IF i \in obj.skip_connections
         THEN Linear(obj.layer_width + obj.in_dim, obj.layer_width)
         ELSE Linear(obj.layer_width, obj.layer_width)

build_nn_modules_checkFirst(obj) ==
    IF 0 \in obj.skip_connections
    THEN [obj EXCEPT !.error = "AssertionError"]
    ELSE IF obj.num_layers = 1
    THEN [obj EXCEPT !.layers = <<Linear(obj.in_dim, obj.out_dim)>>,
                     !.linear_calls = 1,
                     !.attrs = @ \cup {"layers"}]
    ELSE [obj EXCEPT
             !.layers = [k \in 1..(obj.num_layers - 1) |-> HiddenLayer(obj, k - 1)]
                            \o <<Linear(obj.layer_width, obj.out_dim)>>,
             !.linear_calls = Cardinality(1..(obj.num_layers - 1)) + 1,
             !.attrs = @ \cup {"layers"}]

\* build_nn_modules: the loop runs i over range(num_layers - 1); its first
\* iteration asserts that 0 is no skip connection before any unit is made
build_nn_modules(obj) ==
    IF obj.num_layers = 1
    THEN [obj EXCEPT !.layers = <<Linear(obj.in_dim, obj.out_dim)>>,
                     !.linear_calls = 1,
                     !.attrs = @ \cup {"layers"}]
    ELSE IF 0 \in 0..(obj.num_layers - 2) /\ 0 \in obj.skip_connections
    THEN [obj EXCEPT !.error = "AssertionError"]
    ELSE [obj EXCEPT
             !.layers = [k \in 1..(obj.num_layers - 1) |-> HiddenLayer(obj, k - 1)]
                            \o <<Linear(obj.layer_width, obj.out_dim)>>,
             !.linear_calls = Cardinality(1..(obj.num_layers - 1)) + 1,
             !.attrs = @ \cup {"layers"}]

\* the assignments of __init__ after the assertion on in_dim
StoreConfig(obj, a) ==
    [obj EXCEPT
        !.out_dim = IF a.out_dim # {} THEN CHOOSE d \in a.out_dim : TRUE
                                      ELSE a.layer_width,
        !.num_layers = a.num_layers,
        !.layer_width = a.layer_width,
        !.skip_connections = a.skip_connections,
        !.activation = a.activation,
        !.out_activation = a.out_activation,
        !.net = "None",
        !.attrs = @ \cup {"out_dim", "num_layers", "layer_width",
                          "skip_connections", "activation",
                          "out_activation", "net"}]

StoreInDim(a) == [NewModule EXCEPT !.in_dim = a.in_dim, !.attrs = {"in_dim"}]

MLP_init_lateAssert(a) ==
    LET built == build_nn_modules(StoreConfig(StoreInDim(a), a))
    IN  IF built.error = "none" /\ ~(built.in_dim > 0)
        THEN [built EXCEPT !.error = "AssertionError"]
        ELSE built

\* MLP.__init__
MLP_init(a) ==
    IF ~(StoreInDim(a).in_dim > 0)
    THEN [StoreInDim(a) EXCEPT !.error = "AssertionError"]
    ELSE build_nn_modules(StoreConfig(StoreInDim(a), a))

(* ------------------------------ evaluation ---------------------------- *)
\* the frame of a call of forward; pc is the position in its body
NoCall ==
    [pc |-> "idle", i |-> 0, error |-> "none",
     in_tensor |-> [shape |-> <<1>>, expr |-> <<>>],
     x |-> [shape |-> <<1>>, expr |-> <<>>]]

\* x = in_tensor, then the loop header
forward_enter(t) ==
    [pc |-> "loop", i |-> 0, error |-> "none", in_tensor |-> t, x |-> t]

\* if i in self.skip_connections: x = torch.cat([in_tensor, x], -1)
forward_skip(obj, f) ==
    IF f.i \in obj.skip_connections
    THEN IF CatFits(f.in_tensor, f.x)
         THEN [f EXCEPT !.x = Cat(f.in_tensor, f.i, f.x), !.pc = "linear"]
         ELSE [f EXCEPT !.error = "RuntimeError", !.pc = "raised"]
    ELSE [f EXCEPT !.pc = "linear"]

\* x = layer(x)
forward_layer(obj, f) ==
    IF LinearFits(obj.layers[f.i + 1], f.x)
    THEN [f EXCEPT !.x = LinearApply(obj.layers[f.i + 1], f.i, f.x), !.pc = "act"]
    ELSE [f EXCEPT !.error = "RuntimeError", !.pc = "raised"]

forward_activation_hiddenOnly(obj, f) ==
    IF Truthy(obj.activation) /\ f.i + 1 < Len(obj.layers)
    THEN [f EXCEPT !.x = ActivationApply(obj.activation, f.i, f.x),
                   !.i = @ + 1, !.pc = "loop"]
    ELSE [f EXCEPT !.i = @ + 1, !.pc = "loop"]

forward_activation_outLast(obj, f) ==
    IF f.i + 1 = Len(obj.layers) /\ Truthy(obj.out_activation)
    THEN [f EXCEPT !.x = ActivationApply(obj.out_activation, f.i, f.x),
                   !.i = @ + 1, !.pc = "loop"]
    ELSE IF Truthy(obj.activation)
    THEN [f EXCEPT !.x = ActivationApply(obj.activation, f.i, f.x),
                   !.i = @ + 1, !.pc = "loop"]
    ELSE [f EXCEPT !.i = @ + 1, !.pc = "loop"]

\* if self.activation: x = self.activation(x); then the next iteration
forward_activation(obj, f) ==
    IF Truthy(obj.activation)
    THEN [f EXCEPT !.x = ActivationApply(obj.activation, f.i, f.x),
                   !.i = @ + 1, !.pc = "loop"]
    ELSE [f EXCEPT !.i = @ + 1, !.pc = "loop"]

\* return x
forward_return(f) == [f EXCEPT !.pc = "returned"]

\* one step of forward from the position of the frame
forward_step(obj, f) ==
    IF f.pc = "loop"
    THEN IF f.i < Len(obj.layers) THEN forward_skip(obj, f) ELSE forward_return(f)
    ELSE IF f.pc = "linear" THEN forward_layer(obj, f)
    ELSE IF f.pc = "act" THEN forward_activation(obj, f)
    ELSE f

(* ------------------------------- state -------------------------------- *)
VARIABLES args, stage, self, call, twin, twinCall

vars == <<args, stage, self, call, twin, twinCall>>

Usable(obj) == obj.error = "none" /\ "layers" \in obj.attrs

Init ==
    /\ args \in ArgSet
    /\ stage = "new"
    /\ self = NewModule
    /\ call = NoCall
    /\ twin = NewModule
    /\ twinCall = NoCall

\* MLP(in_dim, num_layers, layer_width, out_dim, skip_connections, ...)
Construct ==
    /\ stage = "new"
    /\ stage' = "done"
    /\ self' = MLP_init(args)
    /\ UNCHANGED <<args, call, twin, twinCall>>

\* a caller evaluates the constructed module on some tensor
ForwardBegin ==
    /\ stage = "done"
    /\ Usable(self)
    /\ call.pc \in {"idle", "returned", "raised"}
    /\ \E t \in InputTensors : call' = forward_enter(t)
    /\ UNCHANGED <<args, stage, self, twin, twinCall>>

ForwardSkip ==
    /\ call.pc = "loop"
    /\ call.i < Len(self.layers)
    /\ call' = forward_skip(self, call)
    /\ UNCHANGED <<args, stage, self, twin, twinCall>>

ForwardLinear_consume ==
    /\ call.pc = "linear"
    /\ call' = forward_layer(self, call)
    /\ self' = [self EXCEPT !.layers = Tail(@)]
    /\ UNCHANGED <<args, stage, twin, twinCall>>

ForwardLinear ==
    /\ call.pc = "linear"
    /\ call' = forward_layer(self, call)
    /\ UNCHANGED <<args, stage, self, twin, twinCall>>

ForwardActivation ==
    /\ call.pc = "act"
    /\ call' = forward_activation(self, call)
    /\ UNCHANGED <<args, stage, self, twin, twinCall>>

ForwardReturn ==
    /\ call.pc = "loop"
    /\ call.i >= Len(self.layers)
    /\ call' = forward_return(call)
    /\ UNCHANGED <<args, stage, self, twin, twinCall>>

Next ==
    \/ Construct
    \/ ForwardBegin
    \/ ForwardSkip
    \/ ForwardLinear
    \/ ForwardActivation
    \/ ForwardReturn

Spec == Init /\ [][Next]_vars

(* ------------- two modules that differ in out_activation -------------- *)
\* both are built from the same arguments but for out_activation
TwinConstruct ==
    /\ stage = "new"
    /\ stage' = "done"
    /\ self' = MLP_init(args)
    /\ \E oa \in OutActivations \ {args.out_activation} :
           twin' = MLP_init([args EXCEPT !.out_activation = oa])
    /\ UNCHANGED <<args, call, twinCall>>

\* both are evaluated on the same tensor
TwinForwardBegin ==
    /\ stage = "done"
    /\ Usable(self)
    /\ Usable(twin)
    /\ call.pc \in {"idle", "returned", "raised"}
    /\ twinCall.pc \in {"idle", "returned", "raised"}
    /\ \E t \in InputTensors :
           /\ call' = forward_enter(t)
           /\ twinCall' = forward_enter(t)
    /\ UNCHANGED <<args, stage, self, twin>>

\* each call takes its next step
TwinForwardStep ==
    /\ \/ call.pc \in {"loop", "linear", "act"}
       \/ twinCall.pc \in {"loop", "linear", "act"}
    /\ call' = forward_step(self, call)
    /\ twinCall' = forward_step(twin, twinCall)
    /\ UNCHANGED <<args, stage, self, twin>>

NextTwin ==
    \/ TwinConstruct
    \/ TwinForwardBegin
    \/ TwinForwardStep

SpecTwin == Init /\ [][NextTwin]_vars

(* ============================== properties ============================ *)

\* C1: for every constructed MLP and every input whose trailing dimension
\* is in_dim, forward raises no shape error and returns a tensor with the
\* leading dimensions of the input and the trailing dimension out_dim.
C1_ForwardShape ==
    (stage = "done" /\ Usable(self) /\ call.pc # "idle"
        /\ Trailing(call.in_tensor) = self.in_dim)
    => /\ call.pc # "raised"
       /\ call.pc = "returned"
            => call.x.shape = Append(Leading(call.in_tensor), self.out_dim)

\* C2: for a valid configuration with num_layers = N >= 2 the stack has
\* exactly N units: unit 0 maps in_dim -> layer_width, unit N-1 maps
\* layer_width -> out_dim (layer_width when out_dim is not supplied), and an
\* interior unit i maps layer_width + in_dim -> layer_width when i is a skip
\* connection and layer_width -> layer_width otherwise.
C2_StackTopology ==
    (stage = "done" /\ args.num_layers >= 2 /\ args.in_dim > 0
        /\ 0 \notin args.skip_connections)
    => LET N == args.num_layers
           w == args.layer_width
           o == IF args.out_dim = {} THEN w ELSE CHOOSE d \in args.out_dim : TRUE
       IN  /\ Usable(self)
           /\ Len(self.layers) = N
           /\ self.layers[1] = Linear(args.in_dim, w)
           /\ self.layers[N] = Linear(w, o)
           /\ \A i \in 1..(N - 2) :
                 self.layers[i + 1] =
                     IF i \in args.skip_connections
                     THEN Linear(w + args.in_dim, w)
                     ELSE Linear(w, w)

C2_Witness ==
    /\ stage = "done"
    /\ Usable(self)
    /\ args.num_layers >= 3
    /\ 1 \in args.skip_connections
    /\ args.out_dim = {}
    /\ args.layer_width # args.in_dim

\* C3: constructing with 0 in skip_connections fails with an
\* invalid-configuration error for any num_layers, num_layers = 1 included.
C3_SkipZeroRejected ==
    (stage = "done" /\ 0 \in args.skip_connections)
    => self.error = "AssertionError" /\ ~Usable(self)

\* C4: constructing with in_dim <= 0 fails with an invalid-configuration
\* error whatever the other arguments are, before any linear unit is made:
\* the object gets no layer stack and is never evaluated.
C4_InDimRejected ==
    (stage = "done" /\ args.in_dim <= 0)
    => /\ self.error = "AssertionError"
       /\ self.linear_calls = 0
       /\ "layers" \notin self.attrs
       /\ self.layers = <<>>
       /\ call.pc = "idle"

C4_Witness ==
    /\ stage = "done"
    /\ args.in_dim <= 0
    /\ args.num_layers >= 2
    /\ self.error = "AssertionError"

C6_LateSkipNeverFires ==
    stage = "done"
    => \A k \in args.skip_connections :
          k >= args.num_layers - 1
          => /\ self.error = "none" \/ args.in_dim <= 0
                                    \/ 0 \in args.skip_connections
             /\ \A n \in 1..Len(call.x.expr) :
                   ~(call.x.expr[n].op = "cat" /\ call.x.expr[n].layer = k)

C8_SkipConcatMatchesUnit ==
    (stage = "done" /\ call.pc = "linear" /\ call.i \in self.skip_connections
        /\ Trailing(call.in_tensor) = self.in_dim)
    => LET e == call.x.expr
       IN  /\ Len(e) > 0
           /\ e[Len(e)] = Op("cat", call.i, 0)
           /\ Trailing(call.x) = self.layer_width + self.in_dim
           /\ Trailing(call.x) = self.layers[call.i + 1].in_features

\* C9: evaluation is read-only: no step of a call of forward, successful or
\* not, changes the layer stack or a configuration field of the constructed
\* object, nor makes a linear unit.
C9_ForwardReadOnly ==
    [][stage = "done" =>
         /\ self'.layers = self.layers
         /\ self'.linear_calls = self.linear_calls
         /\ self'.attrs = self.attrs
         /\ <<self'.in_dim, self'.out_dim, self'.num_layers, self'.layer_width>>
                = <<self.in_dim, self.out_dim, self.num_layers, self.layer_width>>
         /\ self'.skip_connections = self.skip_connections
         /\ self'.activation = self.activation
         /\ self'.out_activation = self.out_activation]_vars

C9_Witness ==
    /\ stage = "done"
    /\ call.pc = "raised"
    /\ call.i >= 1
    /\ self.layers # <<>>

====
